---- MODULE Spec2Model ----
(***************************************************************************)
(* Worker.Process of pmaccamp/machinery (v1/worker.go) and Task.Call       *)
(* (v1/tasks/task.go), run by concurrent workers against one result        *)
(* backend and one broker.  Every backend call and every broker publish    *)
(* is one atomic step of the calling worker; the code between two such     *)
(* calls is local to the worker and belongs to the step of the call that   *)
(* precedes it.                                                            *)
(***************************************************************************)
EXTENDS Integers, Sequences, FiniteSets, TLC

VARIABLES
    queue,          \* broker: the signatures waiting for delivery
    published,      \* every signature handed to Server.SendTask with success
    taskState,      \* backend: task id -> last state written
    taskResults,    \* backend: task id -> results stored with SUCCESS
    chordTriggered, \* backend: group meta flag set by TriggerChord
    purged,         \* backend: PurgeGroupMeta has been called for the group
    amqpBackend,    \* the configured backend is the AMQP one
    proc,           \* worker -> the frame of its running Process call
    faults,         \* number of backend / broker calls that returned an error
    deliveries,     \* number of deliveries made by the broker
    calls,          \* the task.Call() made for the signature submitted alone
    cnf,            \* LaunchAsync: the configuration the worker was launched with
    consumer,       \* LaunchAsync: the goroutine that runs the consume loop
    signalHandler,  \* LaunchAsync: the goroutine that handles SIGINT and SIGTERM
    quitter,        \* LaunchAsync: the goroutine spawned for the graceful quit
    broker,         \* the broker's consuming: stop requests, running handlers
    errorsChan      \* the errors received from the error channel, in order

\* The state of Worker.Process and of its collaborators.
processVars == <<queue, published, taskState, taskResults, chordTriggered, purged,
                 amqpBackend, proc, faults, deliveries, calls>>

\* The state of Worker.LaunchAsync and of its collaborators.
launchVars == <<cnf, consumer, signalHandler, quitter, broker, errorsChan>>

vars == <<processVars, launchVars>>

----------------------------------------------------------------------------
\* Bounds of the model.

\* largest retry_count a submitted signature carries
MaxRetryCount == 2
\* at most this many backend / broker calls fail in one run
MaxFaults == 1
\* at most this many deliveries are made by the broker in one run
MaxDeliveries == 3
\* the Fibonacci numbers the properties know: those up to this one
FibonacciLimit == 60

Workers == {1, 2}
\* the value time.Now() returns, in seconds
Times == {100}
\* the delays a handler may ask for with ErrRetryTaskLater
RetryIns == {40}
\* retry_timeout values a submitted signature may carry
RetryTimeouts == {0, 3}

----------------------------------------------------------------------------
\* Values of type interface{}: the dynamic type (its kind) and the value.  A
\* float64 is held in tenths.

IntValue(n) == [kind |-> "int", val |-> n]
Float64Value(tenths) == [kind |-> "float64", val |-> tenths]
BoolValue(b) == [kind |-> "bool", val |-> IF b THEN 1 ELSE 0]
StringValue(s) == [kind |-> "string", str |-> s]
ContextValue == [kind |-> "context", val |-> 1]

Ints(seq) == [k \in 1..Len(seq) |-> IntValue(seq[k])]

----------------------------------------------------------------------------
\* Signatures.

NoETA == <<>>
NoChord == <<>>
NoGroup == ""

\* The queue the workers of the model consume; callbacks are routed to the
\* queue of another pool of workers.
WorkerQueue == "machinery_tasks"
CallbackQueue == "callbacks"

Signature(id, task, args, immutable, rc, rt, group, count, onSuccess, onError, chord) ==
    [Id |-> id, Task |-> task, RoutingKey |-> WorkerQueue,
     Args |-> args, Immutable |-> immutable,
     RetryCount |-> rc, RetryTimeout |-> rt, ETA |-> NoETA,
     GroupUUID |-> group, GroupTaskCount |-> count,
     OnSuccess |-> onSuccess, OnError |-> onError, ChordCallback |-> chord]

Callback(id, args, immutable) ==
    [Signature(id, "cb", args, immutable, 0, 0, NoGroup, 0, <<>>, <<>>, NoChord)
        EXCEPT !.RoutingKey = CallbackQueue]

\* The registry: the names with a handler, and each handler's parameters.
\*   add, sum : func(x int) (..., error)
\*   ctx      : func(c context.Context) (interface{}, error)
\*   cb       : func(x int, y int) (..., error)
RegisteredTasks == {"add", "sum", "ctx", "cb"}

IsTaskRegistered(task) == task \in RegisteredTasks

\* taskFunc.Type().In(i).Kind(), for every parameter of the handler.
In(task) ==
    CASE task \in {"add", "sum"} -> <<"int">>
      [] task = "ctx" -> <<"context">>
      [] OTHER -> <<"int", "int">>

NumIn(task) == Len(In(task))

\* tasks.New: the handler's first parameter is a context.
UseContext(task) == NumIn(task) > 0 /\ In(task)[1] = "context"

\* The group of the model and its members in submission order.
GroupId == "g1"
GroupMembers == <<"m1", "m2">>

TaskIds == {"solo", "ghost", "m1", "m2", "ok1", "ok2", "ko1", "chord"}

\* What the handler of a task returns before its error value.
ReturnValues(id) ==
    CASE id = "m1" -> Ints(<<11>>)
      [] id = "m2" -> Ints(<<21, 22>>)
      [] id = "solo" -> Ints(<<1, 2>>)
      [] OTHER -> Ints(<<5>>)

----------------------------------------------------------------------------
\* Errors.  kind "nil" is the nil error.

NilErr == [kind |-> "nil", msg |-> "", retryIn |-> 0]
Err(msg) == [kind |-> "error", msg |-> msg, retryIn |-> 0]
ErrRetryTaskLater(msg, d) == [kind |-> "retriable", msg |-> msg, retryIn |-> d]

ErrTaskPanicked == Err("Invoking task caused a panic")
ErrTaskReturnsNoValue == Err("Task must return at least a single value")
ErrLastReturnValueMustBeError == Err("Last return value of a task must be error")
PanicNilError == Err("panic called with nil argument")

----------------------------------------------------------------------------
\* Task.Call: what a handler may do, and what Call makes of it.

NoPanic == [type |-> "none", err |-> NilErr, str |-> ""]
PanicNil == [type |-> "nil", err |-> NilErr, str |-> ""]
PanicError(e) == [type |-> "error", err |-> e, str |-> ""]
PanicString(s) == [type |-> "string", err |-> NilErr, str |-> s]
PanicOther == [type |-> "other", err |-> NilErr, str |-> ""]

PanicValues ==
    {PanicNil, PanicError(Err("boom")), PanicString("oops"), PanicOther}
    \cup {PanicError(ErrRetryTaskLater("later", d)) : d \in RetryIns}

\* last: what the handler returns last ("novalue": it returns nothing at all).
Returns(last, e) == [beh |-> "return", last |-> last, err |-> e, panic |-> NoPanic]
Panics(p) == [beh |-> "panic", last |-> "none", err |-> NilErr, panic |-> p]
NotCalled == [beh |-> "none", last |-> "none", err |-> NilErr, panic |-> NoPanic]

\* What the registered handlers may do when invoked: the handler of "sum"
\* returns its values, an error or a retriable error; the handler of "add" may
\* also return nothing, return a last value that is no error, or panic.
PlainBehaviours ==
    {Returns("nil", NilErr), Returns("error", Err("some error"))}
    \cup {Returns("retriable", ErrRetryTaskLater("some error", d)) : d \in RetryIns}

Behaviours(task) ==
    IF task \in {"sum", "ctx"} THEN PlainBehaviours
    ELSE PlainBehaviours
         \cup {Returns("novalue", NilErr), Returns("other", NilErr)}
         \cup {Panics(p) : p \in PanicValues}

\* reflect.Value.Call refused the argument list: the handler did not run.
ReflectPanics(s) ==
    [beh |-> "reflect", last |-> "none", err |-> NilErr, panic |-> PanicString(s)]

\* The argument list Call hands to TaskFunc.Call: the context first when the
\* handler takes one.
CallArgs(task, args) ==
    IF UseContext(task) THEN <<ContextValue>> \o args ELSE args

\* reflect.Value.Call panics when the number of arguments is not the number
\* of parameters, or when an argument is not assignable to its parameter.
ReflectCallPanic(task, in) ==
    IF Len(in) < NumIn(task) THEN "reflect: Call with too few input arguments"
    ELSE IF Len(in) > NumIn(task) THEN "reflect: Call with too many input arguments"
    ELSE IF \E k \in 1..Len(in) : in[k].kind /= In(task)[k]
         THEN LET k == CHOOSE j \in 1..Len(in) :
                          /\ in[j].kind /= In(task)[j]
                          /\ \A m \in 1..(j - 1) : in[m].kind = In(task)[m]
              IN  "reflect: Call using " \o in[k].kind \o " as type " \o In(task)[k]
         ELSE ""

\* What TaskFunc.Call(args) may do.
Invocations(task, in) ==
    IF ReflectCallPanic(task, in) /= "" THEN {ReflectPanics(ReflectCallPanic(task, in))}
    ELSE Behaviours(task)

\* The value recover() hands to the deferred function.  For panic(nil) the Go
\* runtime returns nil when built with the panicnil=1 setting (the default of
\* every toolchain before Go 1.21 and of modules declaring go <= 1.20) and a
\* *runtime.PanicNilError otherwise.
Recover(p, panicnil) ==
    IF p.type = "nil"
    THEN IF panicnil THEN NoPanic ELSE PanicError(PanicNilError)
    ELSE p

\* The deferred function of Call: the error it assigns to err, for e /= nil.
RecoveredErr(e) ==
    CASE e.type = "error" -> e.err
      [] e.type = "string" -> Err(e.str)
      [] OTHER -> ErrTaskPanicked

\* The return statements of Call after the handler returned.
Extract(h, id) ==
    CASE h.last = "novalue" -> [results |-> <<>>, err |-> ErrTaskReturnsNoValue]
      [] h.last = "retriable" -> [results |-> <<>>, err |-> h.err]
      [] h.last = "other" -> [results |-> <<>>, err |-> ErrLastReturnValueMustBeError]
      [] h.last = "error" -> [results |-> <<>>, err |-> h.err]
      [] OTHER -> [results |-> ReturnValues(id), err |-> NilErr]

Call(h, id, panicnil) ==
    IF h.beh \in {"panic", "reflect"}
    THEN LET e == Recover(h.panic, panicnil)
         IN  [results |-> <<>>,
              err |-> IF e.type /= "none" THEN RecoveredErr(e) ELSE NilErr]
    ELSE Extract(h, id)

\* int(arg.(float64)): the conversion truncates toward zero.
Truncate(tenths) == IF tenths >= 0 THEN tenths \div 10 ELSE -((-tenths) \div 10)

\* ReflectArgs: the values it stores in t.Args, a float64 converted where
\* the parameter at the same position is an int.
ReflectArgs(task, args) ==
    [k \in 1..Len(args) |->
        IF In(task)[k] = "int" /\ args[k].kind = "float64"
        THEN IntValue(Truncate(args[k].val))
        ELSE args[k]]

\* tasks.New: ReflectArgs refuses an argument list whose length is not the
\* handler's number of parameters.
ReflectArgsErr(task, args) ==
    IF NumIn(task) /= Len(args)
    THEN Err("Reflect task args error")
    ELSE NilErr

DispatchNilTestInverted(err, sig) ==
    IF err.kind = "nil"
    THEN IF sig.RetryCount > 0 THEN "taskRetry" ELSE "taskFailed"
    ELSE "taskSucceeded"

DispatchNoRetryCount(err, sig) ==
    IF err.kind /= "nil"
    THEN IF err.kind = "retriable" THEN "retryTaskIn" ELSE "taskFailed"
    ELSE "taskSucceeded"

\* Process, after Call: which of the four paths the outcome takes.
Dispatch(err, sig) ==
    IF err.kind /= "nil"
    THEN IF err.kind = "retriable" THEN "retryTaskIn"
         ELSE IF sig.RetryCount > 0 THEN "taskRetry"
         ELSE "taskFailed"
    ELSE "taskSucceeded"

----------------------------------------------------------------------------
\* The frame of a Process call.

NoSig == Signature("", "", <<>>, FALSE, 0, 0, NoGroup, 0, <<>>, <<>>, NoChord)

Idle ==
    [pc |-> "idle",       \* where the call stands
     sig |-> NoSig,       \* the signature, as the call has mutated it so far
     msg |-> NoSig,       \* the signature as the broker delivered it
     args |-> <<>>,       \* t.Args, the values ReflectArgs stored
     in |-> <<>>,         \* the argument list Call handed to TaskFunc.Call
     handler |-> NotCalled, \* what the handler did when Call invoked it
     results |-> <<>>,    \* results returned by Call
     err |-> NilErr,      \* err returned by tasks.New or by Call
     direct |-> FALSE,    \* taskFailed was entered from the tasks.New check
     i |-> 0,             \* index of the callback loop
     now |-> 0,           \* the time.Now() read when eta was computed
     purge |-> FALSE,     \* PurgeGroupMeta is deferred
     states |-> <<>>,     \* taskStates, as GroupTaskStates returned them
     failed |-> "",       \* the backend call that returned an error, if any
     writes |-> <<>>,     \* the SetState* calls made, in order
     queries |-> <<>>,    \* the group calls made to the backend, in order
     pubs |-> <<>>,       \* the SendTask calls made, in order
     ret |-> "none"]      \* what Process returned: "nil" or "error"

Return(f, ret) == [f EXCEPT !.pc = "done", !.ret = ret]

Wrote(f, st) == [f EXCEPT !.writes = Append(@, st)]

Failed(f, call) == [f EXCEPT !.failed = call]

WriteFailedAfterCountdown(f, st, call) ==
    Return(Failed(Wrote([f EXCEPT !.sig.RetryCount = @ - 1], st), call), "error")

\* SetStateReceived, SetStateStarted or SetStateRetry returned an error:
\* Process returns an error at once.
WriteFailed(f, st, call) == Return(Failed(Wrote(f, st), call), "error")

Asked(f, q) == [f EXCEPT !.queries = Append(@, q)]

Sent(f, kind, s) == [f EXCEPT !.pubs = Append(@, [kind |-> kind, sig |-> s])]

\* A backend or broker call may fail while the fault budget lasts.
Outcomes == IF faults < MaxFaults THEN {TRUE, FALSE} ELSE {TRUE}

Fault(ok) == faults' = IF ok THEN faults ELSE faults + 1

\* Server.SendTask: hands the signature to the broker.
SendTask(kind, s, ok) ==
    /\ queue' = IF ok THEN Append(queue, s) ELSE queue
    /\ published' = IF ok THEN Append(published, [kind |-> kind, sig |-> s])
                    ELSE published

\* Backend.SetState*: records the state of the task.
SetState(id, st, ok) ==
    taskState' = IF ok THEN [taskState EXCEPT ![id] = st] ELSE taskState

\* The tally of the task.Call() made: how many, the retry_count the signature
\* had at the first, and in how many the handler ran and Call returned an
\* error that is not retriable.
NoCalls == [made |-> 0, first |-> 0, failed |-> 0]

Made(tally, sig, h, panicnil) ==
    [made |-> tally.made + 1,
     first |-> IF tally.made = 0 THEN sig.RetryCount ELSE tally.first,
     failed |-> IF h.beh /= "reflect" /\ Call(h, sig.Id, panicnil).err.kind = "error"
                THEN tally.failed + 1 ELSE tally.failed]

----------------------------------------------------------------------------
\* Worker.LaunchAsync: the configuration and the state right after the call.

\* at most this many calls of StartConsuming are made in one run
MaxStartConsuming == 3
\* at most this many signals are raised in one run
MaxSignals == 3
\* a caller of LaunchAsync receives at most this many errors from the channel
MaxReceives == 3

\* Worker.Launch receives one error from the channel and returns it.
LaunchReceives == 1

\* cnf.NoUnixSignals, whether worker.errorHandler is set, and how many errors
\* the caller receives from the channel it passed.
Configs ==
    [NoUnixSignals : BOOLEAN, errorHandler : BOOLEAN,
     receives : {LaunchReceives, MaxReceives}]

DefaultConfig ==
    [NoUnixSignals |-> FALSE, errorHandler |-> FALSE, receives |-> LaunchReceives]

\* LaunchAsync has returned: the consume loop is about to call StartConsuming
\* and, unless signals are disabled, the signal goroutine waits on its channel.
Launched(c) ==
    /\ cnf = c
    /\ consumer = [pc |-> "start", started |-> 0, retried |-> 0, notified |-> 0,
                   err |-> NilErr]
    /\ signalHandler = [pc |-> IF c.NoUnixSignals THEN "off" ELSE "select",
                        sig |-> 0, signalsReceived |-> 0, raised |-> 0]
    /\ quitter = "none"
    /\ broker = [stopping |-> FALSE, stopped |-> FALSE, inflight |-> 0]
    /\ errorsChan = <<>>

----------------------------------------------------------------------------
\* Initial states: one submitted workload, all workers idle.

SoloSigs ==
    {Signature("solo", "add", Ints(<<1>>), imm, rc, rt, NoGroup, 0,
               <<Callback("ok1", Ints(<<7>>), FALSE), Callback("ok2", <<>>, TRUE)>>,
               <<Callback("ko1", Ints(<<8>>), imm)>>, NoChord) :
        imm \in BOOLEAN, rc \in 0..MaxRetryCount, rt \in RetryTimeouts}

\* Signatures whose args do not fit func(x int): none at all, or a bool.
MalformedSigs ==
    {Signature("solo", "add", args, imm, rc, 0, NoGroup, 0,
               <<Callback("ok1", Ints(<<7>>), FALSE)>>,
               <<Callback("ko1", Ints(<<8>>), imm)>>, NoChord) :
        args \in {<<>>, <<BoolValue(TRUE)>>}, imm \in BOOLEAN, rc \in {0, 1}}

\* Signatures for the handler that takes only a context.
CtxSigs ==
    {Signature("solo", "ctx", args, FALSE, rc, 0, NoGroup, 0,
               <<Callback("ok1", Ints(<<7>>), FALSE)>>,
               <<Callback("ko1", Ints(<<8>>), FALSE)>>, NoChord) :
        args \in {<<>>, Ints(<<1>>)}, rc \in {0, 1}}

GhostSig ==
    Signature("ghost", "nope", Ints(<<1>>), FALSE, 1, 0, GroupId, 1,
              <<Callback("ok1", Ints(<<7>>), FALSE)>>,
              <<Callback("ko1", Ints(<<8>>), FALSE)>>,
              <<Callback("chord", Ints(<<9>>), FALSE)>>)

Member(id, imm, chordImm, rc) ==
    Signature(id, "sum", Ints(<<1>>), imm, rc, 0, GroupId, Len(GroupMembers),
              IF id = "m1" THEN <<Callback("ok1", Ints(<<7>>), FALSE)>> ELSE <<>>,
              <<>>, <<Callback("chord", Ints(<<9>>), chordImm)>>)

\* The submitted groups: the members' immutable flag, the chord callback's,
\* and whether the backend is the AMQP one; every two of the three flags take
\* all their combinations.
GroupFlags ==
    {<<FALSE, FALSE, FALSE>>, <<FALSE, TRUE, TRUE>>,
     <<TRUE, FALSE, TRUE>>, <<TRUE, TRUE, FALSE>>}

Group(flags, rc) ==
    [k \in 1..Len(GroupMembers) |-> Member(GroupMembers[k], flags[1], flags[2], rc)]

\* The members of a group carry retry_count 0, or 1 for the first flags.
GroupRetryCounts(flags) ==
    IF flags = <<FALSE, FALSE, FALSE>> THEN {0, 1} ELSE {0}

GroupSigs ==
    UNION {{Group(flags, rc) : rc \in GroupRetryCounts(flags)} : flags \in GroupFlags}

Workloads ==
    {<<s>> : s \in SoloSigs \cup MalformedSigs \cup CtxSigs}
    \cup {<<GhostSig>>} \cup GroupSigs

Init ==
    /\ queue \in Workloads
    /\ published = <<>>
    /\ taskState = [id \in TaskIds |-> "PENDING"]
    /\ taskResults = [id \in TaskIds |-> <<>>]
    /\ chordTriggered = FALSE
    /\ purged = FALSE
    /\ amqpBackend = \E flags \in GroupFlags :
                        \E rc \in GroupRetryCounts(flags) :
                            queue = Group(flags, rc) /\ flags[3]
    /\ proc = [w \in Workers |-> Idle]
    /\ faults = 0
    /\ deliveries = 0
    /\ calls = NoCalls
    /\ Launched(DefaultConfig)

----------------------------------------------------------------------------
\* The broker's consume loop hands a waiting signature to Worker.Process.

Remove(q, i) == SubSeq(q, 1, i - 1) \o SubSeq(q, i + 1, Len(q))

SkipTaskNever(sig) == FALSE

\* The soft skip: an unregistered task is not processed.
SkipTask(sig) == ~IsTaskRegistered(sig.Task)

\* A delivery: the consume loop takes a waiting signature of the workers' queue
\* and calls Process with it on an idle worker (the workers are interchangeable
\* and the first idle one is taken); Process looks the task up.
Process(w) ==
    /\ proc[w].pc = "idle"
    /\ \A v \in Workers : v < w => proc[v].pc /= "idle"
    /\ deliveries < MaxDeliveries
    /\ \E i \in 1..Len(queue) :
          /\ queue[i].RoutingKey = WorkerQueue
          /\ proc' = [proc EXCEPT ![w] =
                        LET f == [Idle EXCEPT !.sig = queue[i], !.msg = queue[i]]
                        IN  IF SkipTask(f.sig) THEN Return(f, "nil")
                            ELSE [f EXCEPT !.pc = "setReceived"]]
          /\ queue' = Remove(queue, i)
    /\ deliveries' = deliveries + 1
    /\ UNCHANGED <<published, taskState, taskResults, chordTriggered, purged,
                   amqpBackend, faults, calls, launchVars>>

\* Process returned: the delivery is acknowledged, or requeued after an error.
Ack(w) ==
    /\ proc[w].pc = "done"
    /\ queue' = IF proc[w].ret = "error" THEN Append(queue, proc[w].msg) ELSE queue
    /\ proc' = [proc EXCEPT ![w] = Idle]
    /\ UNCHANGED <<published, taskState, taskResults, chordTriggered, purged,
                   amqpBackend, faults, deliveries, calls, launchVars>>

----------------------------------------------------------------------------
\* Worker.Process up to the choice of the path.

\* SetStateReceived, then tasks.New.
AfterReceived(f) ==
    LET e == ReflectArgsErr(f.sig.Task, f.sig.Args)
    IN  IF e.kind /= "nil"
        THEN [f EXCEPT !.err = e, !.direct = TRUE, !.pc = "taskFailed"]
        ELSE [f EXCEPT !.args = ReflectArgs(f.sig.Task, f.sig.Args),
                       !.pc = "setStarted"]

SetStateReceived(w) ==
    /\ proc[w].pc = "setReceived"
    /\ \E ok \in Outcomes :
          /\ SetState(proc[w].sig.Id, "RECEIVED", ok)
          /\ Fault(ok)
          /\ proc' = [proc EXCEPT ![w] =
                        IF ok THEN AfterReceived(Wrote(@, "RECEIVED"))
                        ELSE WriteFailed(@, "RECEIVED", "SetStateReceived")]
    /\ UNCHANGED <<queue, published, taskResults, chordTriggered, purged,
                   amqpBackend, deliveries, calls, launchVars>>

\* SetStateStarted, then task.Call() and the choice of the path: the handler
\* does what it does (h), under either runtime setting for panic(nil).
AfterStarted(f, h, panicnil) ==
    LET out == Call(h, f.sig.Id, panicnil)
    IN  [f EXCEPT !.in = CallArgs(f.sig.Task, f.args),
                  !.handler = h, !.results = out.results, !.err = out.err,
                  !.pc = Dispatch(out.err, f.sig)]

SetStateStarted(w) ==
    /\ proc[w].pc = "setStarted"
    /\ \E ok \in Outcomes, panicnil \in BOOLEAN,
          h \in Invocations(proc[w].sig.Task, CallArgs(proc[w].sig.Task, proc[w].args)) :
          /\ SetState(proc[w].sig.Id, "STARTED", ok)
          /\ Fault(ok)
          /\ proc' = [proc EXCEPT ![w] =
                        IF ok THEN AfterStarted(Wrote(@, "STARTED"), h, panicnil)
                        ELSE WriteFailed(@, "STARTED", "SetStateStarted")]
          /\ calls' = IF ok /\ proc[w].sig.GroupUUID = NoGroup
                      THEN Made(calls, proc[w].sig, h, panicnil)
                      ELSE calls
    /\ UNCHANGED <<queue, published, taskResults, chordTriggered, purged,
                   amqpBackend, deliveries, launchVars>>

----------------------------------------------------------------------------
\* The retry paths.

\* retry.FibonacciNext: the smallest Fibonacci number greater than start.
RECURSIVE FibFrom(_, _, _)
FibFrom(a, b, start) == IF a > start THEN a ELSE FibFrom(b, a + b, start)

FibonacciNext(start) == FibFrom(1, 1, start)

RetrySignatureSentFirst(sig, now) == sig

RetrySignatureNotCounted(sig, now) ==
    LET timeout == FibonacciNext(sig.RetryTimeout)
    IN  [sig EXCEPT !.RetryTimeout = timeout, !.ETA = <<now + timeout>>]

RetrySignatureDoubled(sig, now) ==
    LET timeout == 2 * sig.RetryTimeout + 1
    IN  [sig EXCEPT !.RetryCount = @ - 1,
                    !.RetryTimeout = timeout,
                    !.ETA = <<now + timeout>>]

RetrySignatureOldTimeout(sig, now) ==
    [sig EXCEPT !.RetryCount = @ - 1,
                !.RetryTimeout = FibonacciNext(sig.RetryTimeout),
                !.ETA = <<now + sig.RetryTimeout>>]

\* taskRetry, after the RETRY write: the signature it sends back.
RetrySignature(sig, now) ==
    LET timeout == FibonacciNext(sig.RetryTimeout)
    IN  [sig EXCEPT !.RetryCount = @ - 1,
                    !.RetryTimeout = timeout,
                    !.ETA = <<now + timeout>>]

RetryInSignatureCounted(sig, now, retryIn) ==
    [sig EXCEPT !.RetryCount = @ - 1, !.ETA = <<now + retryIn>>]

\* retryTaskIn, after the RETRY write: the signature it sends back.
RetryInSignature(sig, now, retryIn) == [sig EXCEPT !.ETA = <<now + retryIn>>]

\* The first half of taskRetry and of retryTaskIn: SetStateRetry.
SetStateRetry(w, next) ==
    \E ok \in Outcomes :
        /\ SetState(proc[w].sig.Id, "RETRY", ok)
        /\ Fault(ok)
        /\ proc' = [proc EXCEPT ![w] =
                      IF ok THEN [Wrote(@, "RETRY") EXCEPT !.pc = next]
                      ELSE WriteFailed(@, "RETRY", "SetStateRetry")]

\* The second half: the signature is changed and sent back to the queue.
Resend(w, s, now) ==
    \E ok \in Outcomes :
        /\ SendTask("retry", s, ok)
        /\ Fault(ok)
        /\ proc' = [proc EXCEPT ![w] =
                      Return([(IF ok THEN Sent(@, "retry", s) ELSE @)
                                EXCEPT !.sig = s, !.now = now],
                             IF ok THEN "nil" ELSE "error")]

TaskRetry(w) ==
    /\ proc[w].pc = "taskRetry"
    /\ SetStateRetry(w, "taskRetrySend")
    /\ UNCHANGED <<queue, published, taskResults, chordTriggered, purged,
                   amqpBackend, deliveries, calls, launchVars>>

TaskRetrySend(w) ==
    /\ proc[w].pc = "taskRetrySend"
    /\ \E now \in Times : Resend(w, RetrySignature(proc[w].sig, now), now)
    /\ UNCHANGED <<taskState, taskResults, chordTriggered, purged, amqpBackend,
                   deliveries, calls, launchVars>>

RetryTaskIn(w) ==
    /\ proc[w].pc = "retryTaskIn"
    /\ SetStateRetry(w, "retryTaskInSend")
    /\ UNCHANGED <<queue, published, taskResults, chordTriggered, purged,
                   amqpBackend, deliveries, calls, launchVars>>

RetryTaskInSend(w) ==
    /\ proc[w].pc = "retryTaskInSend"
    /\ \E now \in Times :
          Resend(w, RetryInSignature(proc[w].sig, now, proc[w].err.retryIn), now)
    /\ UNCHANGED <<taskState, taskResults, chordTriggered, purged, amqpBackend,
                   deliveries, calls, launchVars>>

----------------------------------------------------------------------------
\* The failure path.

ErrorCallbackUnlessImmutable(cb, err) ==
    IF cb.Immutable THEN cb ELSE [cb EXCEPT !.Args = <<StringValue(err.msg)>> \o @]

\* taskFailed: the callback as it is sent, the error string first.
ErrorCallback(cb, err) == [cb EXCEPT !.Args = <<StringValue(err.msg)>> \o @]

\* What Process returns once taskFailed is through: the tasks.New error when
\* taskFailed was entered from there, else what taskFailed returns (nil).
FailedReturn(f) == Return(f, IF f.direct THEN "error" ELSE "nil")

AfterFailureWrite(f) ==
    IF Len(f.sig.OnError) > 0
    THEN [f EXCEPT !.pc = "onError", !.i = 1]
    ELSE FailedReturn(f)

TaskFailed(w) ==
    /\ proc[w].pc = "taskFailed"
    /\ \E ok \in Outcomes :
          /\ SetState(proc[w].sig.Id, "FAILURE", ok)
          /\ Fault(ok)
          /\ proc' = [proc EXCEPT ![w] =
                        IF ok THEN AfterFailureWrite(Wrote(@, "FAILURE"))
                        ELSE Return(Failed(Wrote(@, "FAILURE"), "SetStateFailure"), "error")]
    /\ UNCHANGED <<queue, published, taskResults, chordTriggered, purged,
                   amqpBackend, deliveries, calls, launchVars>>

\* One round of the loop over OnError; the error of SendTask is dropped.
SendOnError(w) ==
    /\ proc[w].pc = "onError"
    /\ LET f == proc[w]
           cb == ErrorCallback(f.sig.OnError[f.i], f.err)
           g == [f EXCEPT !.sig.OnError[f.i] = cb, !.i = @ + 1]
       IN  \E ok \in Outcomes :
              /\ SendTask("on_error", cb, ok)
              /\ Fault(ok)
              /\ proc' = [proc EXCEPT ![w] =
                            LET h == IF ok THEN Sent(g, "on_error", cb) ELSE g
                            IN  IF f.i < Len(f.sig.OnError) THEN h
                                ELSE FailedReturn(h)]
    /\ UNCHANGED <<taskState, taskResults, chordTriggered, purged, amqpBackend,
                   deliveries, calls, launchVars>>

----------------------------------------------------------------------------
\* The success path.

IsSuccess(st) == st = "SUCCESS"

IsCompleted(st) == st \in {"SUCCESS", "FAILURE"}

\* Backend.GroupCompleted: count states of the group are SUCCESS or FAILURE.
GroupCompleted(count) ==
    Cardinality({k \in 1..Len(GroupMembers) :
                    IsCompleted(taskState[GroupMembers[k]])}) >= count

\* Backend.GroupTaskStates: the states of the members, in submission order.
GroupTaskStates ==
    [k \in 1..Len(GroupMembers) |->
        [State |-> taskState[GroupMembers[k]],
         Results |-> taskResults[GroupMembers[k]]]]

SuccessCallbackAlways(sig, cb, results) == [cb EXCEPT !.Args = @ \o results]

\* taskSucceeded: the callback as it is sent.
SuccessCallback(sig, cb, results) ==
    IF sig.Immutable = FALSE THEN [cb EXCEPT !.Args = @ \o results] ELSE cb

AfterCallbacksReturns(f) == Return(f, "nil")

\* taskSucceeded, once the callbacks are sent: a task outside a group is done.
AfterCallbacks(f) ==
    IF f.sig.GroupUUID = NoGroup THEN Return(f, "nil")
    ELSE [f EXCEPT !.pc = "groupCompleted"]

AfterSuccessWriteGroupFirst(f) == AfterCallbacks(f)

\* taskSucceeded, once SUCCESS is written: the loop over OnSuccess comes first.
AfterSuccessWrite(f) ==
    IF Len(f.sig.OnSuccess) > 0
    THEN [f EXCEPT !.pc = "onSuccess", !.i = 1]
    ELSE AfterCallbacks(f)

SuccessWriteFailedIgnored(f) == AfterSuccessWrite(Failed(f, "SetStateSuccess"))

\* SetStateSuccess returned an error: taskSucceeded returns it at once.
SuccessWriteFailed(f) == Return(Failed(f, "SetStateSuccess"), "error")

TaskSucceeded(w) ==
    /\ proc[w].pc = "taskSucceeded"
    /\ \E ok \in Outcomes :
          /\ SetState(proc[w].sig.Id, "SUCCESS", ok)
          /\ taskResults' = IF ok THEN [taskResults EXCEPT ![proc[w].sig.Id] =
                                           proc[w].results]
                            ELSE taskResults
          /\ Fault(ok)
          /\ proc' = [proc EXCEPT ![w] =
                        IF ok THEN AfterSuccessWrite(Wrote(@, "SUCCESS"))
                        ELSE SuccessWriteFailed(Wrote(@, "SUCCESS"))]
    /\ UNCHANGED <<queue, published, chordTriggered, purged, amqpBackend,
                   deliveries, calls, launchVars>>

\* One round of the loop over OnSuccess; the error of SendTask is dropped.
SendOnSuccess(w) ==
    /\ proc[w].pc = "onSuccess"
    /\ LET f == proc[w]
           cb == SuccessCallback(f.sig, f.sig.OnSuccess[f.i], f.results)
           g == [f EXCEPT !.sig.OnSuccess[f.i] = cb, !.i = @ + 1]
       IN  \E ok \in Outcomes :
              /\ SendTask("on_success", cb, ok)
              /\ Fault(ok)
              /\ proc' = [proc EXCEPT ![w] =
                            LET h == IF ok THEN Sent(g, "on_success", cb) ELSE g
                            IN  IF f.i < Len(f.sig.OnSuccess) THEN h
                                ELSE AfterCallbacks(h)]
    /\ UNCHANGED <<taskState, taskResults, chordTriggered, purged, amqpBackend,
                   deliveries, calls, launchVars>>

\* A return of taskSucceeded runs the deferred PurgeGroupMeta.
Deferred(f, returns) == purged' = (purged \/ (returns /\ f.purge))

Purged(f) == IF f.purge THEN Asked(f, "PurgeGroupMeta") ELSE f

\* The group check: not completed, or completed without a chord, returns nil.
AfterGroupCompleted(f, completed) ==
    IF ~completed THEN Return(f, "nil")
    ELSE LET g == [f EXCEPT !.purge = amqpBackend]
         IN  IF g.sig.ChordCallback = NoChord THEN Return(g, "nil")
             ELSE [g EXCEPT !.pc = "triggerChord"]

CheckGroupCompleted(w) ==
    /\ proc[w].pc = "groupCompleted"
    /\ \E ok \in Outcomes :
          LET a == Asked(proc[w], "GroupCompleted")
              f == IF ok
                   THEN AfterGroupCompleted(a, GroupCompleted(a.sig.GroupTaskCount))
                   ELSE Return(Failed(a, "GroupCompleted"), "error")
          IN  /\ Fault(ok)
              /\ proc' = [proc EXCEPT ![w] = IF f.pc = "done" THEN Purged(f) ELSE f]
              /\ Deferred(f, f.pc = "done")
    /\ UNCHANGED <<queue, published, taskState, taskResults, chordTriggered,
                   amqpBackend, deliveries, calls, launchVars>>

ChordAlreadyTriggeredIgnored(shouldTrigger) == FALSE

\* The worker's reading of TriggerChord's answer.
ChordAlreadyTriggered(shouldTrigger) == ~shouldTrigger

\* Backend.TriggerChord: test and set of the group's flag, in one step.
BackendTriggerChord(triggered) == [shouldTrigger |-> ~triggered, triggered |-> TRUE]

\* taskSucceeded asks TriggerChord and goes on only when told to trigger.
TriggerChord(w) ==
    /\ proc[w].pc = "triggerChord"
    /\ \E ok \in Outcomes :
          LET answer == BackendTriggerChord(chordTriggered)
              shouldTrigger == answer.shouldTrigger
              a == Asked(proc[w], "TriggerChord")
              f == IF ~ok THEN Return(Failed(a, "TriggerChord"), "error")
                   ELSE IF ChordAlreadyTriggered(shouldTrigger)
                        THEN Return(a, "nil")
                        ELSE [a EXCEPT !.pc = "groupTaskStates"]
          IN  /\ Fault(ok)
              /\ chordTriggered' = IF ok THEN answer.triggered ELSE chordTriggered
              /\ proc' = [proc EXCEPT ![w] = IF f.pc = "done" THEN Purged(f) ELSE f]
              /\ Deferred(f, f.pc = "done")
    /\ UNCHANGED <<queue, published, taskState, taskResults, amqpBackend,
                   deliveries, calls, launchVars>>

RECURSIVE ChordArgsPrepended(_, _, _, _)
ChordArgsPrepended(chord, states, k, args) ==
    IF k > Len(states) \/ ~IsSuccess(states[k].State) THEN args
    ELSE ChordArgsPrepended(chord, states, k + 1,
                            IF chord.Immutable = FALSE THEN states[k].Results \o args
                            ELSE args)

\* The loop over the members' states: the arguments the chord callback has
\* gathered when the loop stops at member k (k > Len(states): at its end).
RECURSIVE ChordArgs(_, _, _, _)
ChordArgs(chord, states, k, args) ==
    IF k > Len(states) \/ ~IsSuccess(states[k].State) THEN args
    ELSE ChordArgs(chord, states, k + 1,
                   IF chord.Immutable = FALSE THEN args \o states[k].Results
                   ELSE args)

AllSuccessNotTested(states) == TRUE

\* The loop over the states returns at the first one that is not SUCCESS.
AllSuccess(states) == \A k \in 1..Len(states) : IsSuccess(states[k].State)

\* GroupTaskStates returned an error: taskSucceeded returns nil.
StatesUnread(f) == Return(f, "nil")

ReadGroupTaskStates(w) ==
    /\ proc[w].pc = "groupTaskStates"
    /\ \E ok \in Outcomes :
          LET states == GroupTaskStates
              a == Asked(proc[w], "GroupTaskStates")
              chord == a.sig.ChordCallback[1]
              g == [a EXCEPT !.states = states,
                             !.sig.ChordCallback[1].Args =
                                ChordArgs(chord, states, 1, @)]
              f == IF ~ok THEN StatesUnread(Failed(a, "GroupTaskStates"))
                   ELSE IF ~AllSuccess(states) THEN Return(g, "nil")
                   ELSE [g EXCEPT !.pc = "sendChord"]
          IN  /\ Fault(ok)
              /\ proc' = [proc EXCEPT ![w] = IF f.pc = "done" THEN Purged(f) ELSE f]
              /\ Deferred(f, f.pc = "done")
    /\ UNCHANGED <<queue, published, taskState, taskResults, chordTriggered,
                   amqpBackend, deliveries, calls, launchVars>>

SendChord(w) ==
    /\ proc[w].pc = "sendChord"
    /\ \E ok \in Outcomes :
          LET chord == proc[w].sig.ChordCallback[1]
          IN  /\ SendTask("chord", chord, ok)
              /\ Fault(ok)
              /\ proc' = [proc EXCEPT ![w] =
                            IF ok THEN Purged(Return(Sent(@, "chord", chord), "nil"))
                            ELSE Purged(Return(@, "error"))]
              /\ Deferred(proc[w], TRUE)
    /\ UNCHANGED <<taskState, taskResults, chordTriggered, amqpBackend,
                   deliveries, calls, launchVars>>

----------------------------------------------------------------------------

Next ==
    \E w \in Workers :
        \/ Process(w)
        \/ Ack(w)
        \/ SetStateReceived(w)
        \/ SetStateStarted(w)
        \/ TaskRetry(w)
        \/ TaskRetrySend(w)
        \/ RetryTaskIn(w)
        \/ RetryTaskInSend(w)
        \/ TaskFailed(w)
        \/ SendOnError(w)
        \/ TaskSucceeded(w)
        \/ SendOnSuccess(w)
        \/ CheckGroupCompleted(w)
        \/ TriggerChord(w)
        \/ ReadGroupTaskStates(w)
        \/ SendChord(w)

Spec == Init /\ [][Next]_vars

----------------------------------------------------------------------------
\* Worker.LaunchAsync: the consume loop, the signal goroutine and the
\* goroutine of the graceful quit, each a process of its own; the error
\* channel is unbuffered, so a send waits for the caller to receive.

TransportError == Err("transport error")
TerminalError == Err("terminal error")
QuitGracefully == Err("Worker quit gracefully")
QuitAbruptly == Err("Worker quit abruptly")

\* The consume loop calls broker.StartConsuming.
StartConsuming ==
    /\ consumer.pc = "start"
    /\ consumer.started < MaxStartConsuming
    /\ consumer' = [consumer EXCEPT !.pc = "consuming", !.started = @ + 1]
    /\ UNCHANGED <<processVars, cnf, signalHandler, quitter, broker, errorsChan>>

\* What StartConsuming may return: a transport error with retry, a terminal
\* error without, and nil without retry once StopConsuming was called and the
\* running handlers have returned.
BrokerReturns ==
    {[retry |-> TRUE, err |-> TransportError],
     [retry |-> FALSE, err |-> TerminalError]}
    \cup (IF broker.stopping /\ broker.inflight = 0
          THEN {[retry |-> FALSE, err |-> NilErr]} ELSE {})

AfterConsumingSendsAlways(c, retryTask, err, handler) ==
    [c EXCEPT !.pc = "send", !.err = err,
              !.retried = IF retryTask THEN @ + 1 ELSE @,
              !.notified = IF retryTask /\ handler THEN @ + 1 ELSE @]

\* The body of the loop after StartConsuming returned: the error handler is
\* told of a retry and the loop goes round; else the error goes to the channel.
AfterConsuming(c, retryTask, err, handler) ==
    IF retryTask
    THEN [c EXCEPT !.pc = "start", !.retried = @ + 1,
                   !.notified = IF handler THEN @ + 1 ELSE @]
    ELSE [c EXCEPT !.pc = "send", !.err = err]

ConsumingReturns ==
    /\ consumer.pc = "consuming"
    /\ \E r \in BrokerReturns :
          consumer' = AfterConsuming(consumer, r.retry, r.err, cnf.errorHandler)
    /\ UNCHANGED <<processVars, cnf, signalHandler, quitter, broker, errorsChan>>

\* The broker hands a delivery to a handler while it consumes.
Deliver ==
    /\ consumer.pc = "consuming"
    /\ ~broker.stopping
    /\ broker.inflight < Cardinality(Workers)
    /\ broker' = [broker EXCEPT !.inflight = @ + 1]
    /\ UNCHANGED <<processVars, cnf, consumer, signalHandler, quitter, errorsChan>>

HandlerReturns ==
    /\ broker.inflight > 0
    /\ broker' = [broker EXCEPT !.inflight = @ - 1]
    /\ UNCHANGED <<processVars, cnf, consumer, signalHandler, quitter, errorsChan>>

\* SIGINT or SIGTERM is raised: signal.Notify relays it to the channel of size
\* one when the goroutine was set up and the channel has room.
Signal ==
    /\ signalHandler.raised < MaxSignals
    /\ signalHandler' =
          [signalHandler EXCEPT !.raised = @ + 1,
                                !.sig = IF signalHandler.pc = "off" THEN @ ELSE 1]
    /\ UNCHANGED <<processVars, cnf, consumer, quitter, broker, errorsChan>>

SecondSignalNever(signalsReceived) == FALSE

\* The test of the signal goroutine: this is not the first signal.
SecondSignal(signalsReceived) == ~(signalsReceived < 2)

\* One round of the signal goroutine: the first signal spawns the graceful
\* quit, every later one sends the abrupt error itself.
HandleSignal ==
    /\ signalHandler.pc = "select"
    /\ signalHandler.sig = 1
    /\ LET n == signalHandler.signalsReceived + 1
       IN  /\ signalHandler' =
                 [signalHandler EXCEPT !.sig = 0, !.signalsReceived = n,
                                       !.pc = IF SecondSignal(n) THEN "send" ELSE @]
           /\ quitter' = IF SecondSignal(n) THEN quitter ELSE "quit"
    /\ UNCHANGED <<processVars, cnf, consumer, broker, errorsChan>>

\* Worker.Quit: the call of broker.StopConsuming.
Quit ==
    /\ quitter = "quit"
    /\ quitter' = "stopConsuming"
    /\ broker' = [broker EXCEPT !.stopping = TRUE]
    /\ UNCHANGED <<processVars, cnf, consumer, signalHandler, errorsChan>>

StopConsumingDone(b) == b.inflight = 0

\* StopConsuming returns once the running handlers have returned.
StopConsumingReturns ==
    /\ quitter = "stopConsuming"
    /\ StopConsumingDone(broker)
    /\ quitter' = "send"
    /\ broker' = [broker EXCEPT !.stopped = TRUE]
    /\ UNCHANGED <<processVars, cnf, consumer, signalHandler, errorsChan>>

\* The goroutines that wait to send on the error channel, and what they send.
Senders ==
    (IF consumer.pc = "send" THEN {[from |-> "consumer", err |-> consumer.err]} ELSE {})
    \cup (IF signalHandler.pc = "send"
          THEN {[from |-> "signalHandler", err |-> QuitAbruptly]} ELSE {})
    \cup (IF quitter = "send" THEN {[from |-> "quitter", err |-> QuitGracefully]} ELSE {})

\* The caller receives from the error channel: one waiting send goes through.
Receive ==
    /\ Len(errorsChan) < cnf.receives
    /\ \E s \in Senders :
          /\ errorsChan' = Append(errorsChan, s)
          /\ consumer' = IF s.from = "consumer"
                         THEN [consumer EXCEPT !.pc = "exited"] ELSE consumer
          /\ signalHandler' = IF s.from = "signalHandler"
                              THEN [signalHandler EXCEPT !.pc = "select"]
                              ELSE signalHandler
          /\ quitter' = IF s.from = "quitter" THEN "done" ELSE quitter
    /\ UNCHANGED <<processVars, cnf, broker>>

LaunchInit ==
    /\ queue = <<>>
    /\ published = <<>>
    /\ taskState = [id \in TaskIds |-> "PENDING"]
    /\ taskResults = [id \in TaskIds |-> <<>>]
    /\ chordTriggered = FALSE
    /\ purged = FALSE
    /\ amqpBackend = FALSE
    /\ proc = [w \in Workers |-> Idle]
    /\ faults = 0
    /\ deliveries = 0
    /\ calls = NoCalls
    /\ \E c \in Configs : Launched(c)

LaunchNext ==
    \/ StartConsuming
    \/ ConsumingReturns
    \/ Deliver
    \/ HandlerReturns
    \/ Signal
    \/ HandleSignal
    \/ Quit
    \/ StopConsumingReturns
    \/ Receive

LaunchSpec == LaunchInit /\ [][LaunchNext]_vars

----------------------------------------------------------------------------
\* Vocabulary of the properties.

Running(w) == proc[w].pc \notin {"idle", "done"}
Returned(w) == proc[w].pc = "done"
Invoked(w) == proc[w].handler /= NotCalled

Has(seq, x) == \E k \in 1..Len(seq) : seq[k] = x
Sends(seq, kind) == {k \in 1..Len(seq) : seq[k].kind = kind}
IsPrefix(s, t) == Len(s) <= Len(t) /\ SubSeq(t, 1, Len(s)) = s

ChordCount == Cardinality(Sends(published, "chord"))

\* The frame of a call holds a member of the group.
OnMember(w) == proc[w].pc /= "idle" /\ proc[w].msg.GroupUUID = GroupId

----------------------------------------------------------------------------
\* C1: a Process call on a signature whose task is not registered returns nil,
\* has made no backend call (no state write, no group call), has sent nothing
\* to the broker and leaves the backend's record of the task untouched.
C1_SoftSkip ==
    \A w \in Workers :
        (proc[w].pc /= "idle" /\ ~IsTaskRegistered(proc[w].msg.Task)) =>
            /\ Returned(w)
            /\ proc[w].ret = "nil"
            /\ proc[w].writes = <<>>
            /\ proc[w].queries = <<>>
            /\ proc[w].pubs = <<>>
            /\ taskState[proc[w].msg.Id] = "PENDING"
            /\ published = <<>>

C1_Witness ==
    \E w \in Workers : Returned(w) /\ ~IsTaskRegistered(proc[w].msg.Task)

\* C2: the chord callback of the group is sent to the broker at most once,
\* however the workers' calls on the members interleave and however often a
\* member is delivered again.
C2_ChordAtMostOnce == ChordCount <= 1

\* A member delivered again after the chord was sent asks TriggerChord, is told
\* the chord has been triggered and returns without sending it.
C2_Witness ==
    /\ ChordCount = 1
    /\ deliveries > Len(GroupMembers)
    /\ \E w \in Workers :
          /\ Returned(w)
          /\ OnMember(w)
          /\ Has(proc[w].queries, "TriggerChord")
          /\ ~Has(proc[w].queries, "GroupTaskStates")
          /\ proc[w].ret = "nil"
          /\ proc[w].pubs = <<>>

\* C3: in a run in which no backend or broker call has failed, once every
\* member of the group is recorded SUCCESS and no call on a member is still
\* running, the chord callback has been sent exactly once.
C3_ChordExactlyOnce ==
    (/\ faults = 0
     /\ \A k \in 1..Len(GroupMembers) : taskState[GroupMembers[k]] = "SUCCESS"
     /\ \A w \in Workers : ~Running(w))
        => ChordCount = 1

\* Both members succeeded in overlapping calls and the chord was sent once.
C3_Witness ==
    /\ faults = 0
    /\ ChordCount = 1
    /\ \A w \in Workers :
          /\ Returned(w)
          /\ OnMember(w)
          /\ Has(proc[w].writes, "SUCCESS")
          /\ Has(proc[w].queries, "TriggerChord")

\* C4: a Process call whose invocation of the handler succeeded (Call returned
\* a nil error) makes the state writes RECEIVED, STARTED, SUCCESS, in this
\* order and no other: at every moment its writes are a prefix of that list,
\* and the whole list once it has returned.
C4_SuccessOrder ==
    \A w \in Workers :
        (Invoked(w) /\ proc[w].err.kind = "nil") =>
            /\ IsPrefix(proc[w].writes, <<"RECEIVED", "STARTED", "SUCCESS">>)
            /\ Returned(w) => proc[w].writes = <<"RECEIVED", "STARTED", "SUCCESS">>

C4_Witness ==
    \E w \in Workers :
        /\ Returned(w)
        /\ Invoked(w)
        /\ proc[w].err.kind = "nil"
        /\ proc[w].handler.beh = "return"
        /\ proc[w].ret = "nil"
        /\ Len(proc[w].pubs) = 2

----------------------------------------------------------------------------
\* C5, as claimed: every call that took the failure path has written RECEIVED,
\* STARTED, FAILURE, whatever made it fail.
C5_FailureOrderWhateverCause ==
    \A w \in Workers :
        (Returned(w) /\ Has(proc[w].writes, "FAILURE")) =>
            proc[w].writes = <<"RECEIVED", "STARTED", "FAILURE">>

\* C5, amended: a call that took the failure path after invoking the handler
\* (a non-retriable error with retry_count = 0) has written RECEIVED, STARTED,
\* FAILURE in this order; a call whose invocation could not be built
\* (tasks.New failed) took it before STARTED and has written RECEIVED, FAILURE.
C5_FailureOrder ==
    \A w \in Workers :
        Has(proc[w].writes, "FAILURE") =>
            IF proc[w].direct
            THEN /\ proc[w].writes = <<"RECEIVED", "FAILURE">>
                 /\ ~Invoked(w)
            ELSE /\ proc[w].writes = <<"RECEIVED", "STARTED", "FAILURE">>
                 /\ Invoked(w)
                 /\ proc[w].err.kind = "error"
                 /\ proc[w].sig.RetryCount = 0

C5_Witness ==
    \E w \in Workers :
        /\ Returned(w)
        /\ Invoked(w)
        /\ Has(proc[w].writes, "FAILURE")
        /\ Sends(proc[w].pubs, "on_error") /= {}

\* C6: a call on a retry path writes RECEIVED, STARTED, RETRY in this order;
\* nothing is sent and the signature is unchanged until RETRY is written; what
\* is then sent back is the signature with eta = now + delay and, on the
\* default path, with retry_count one less and retry_timeout advanced, the
\* delay being the new retry_timeout.
C6_RetryOrder ==
    \A w \in Workers :
        LET f == proc[w]
            default == f.err.kind = "error"
            timeout == FibonacciNext(f.msg.RetryTimeout)
        IN  /\ f.pc \in {"taskRetry", "retryTaskIn"} =>
                  f.writes = <<"RECEIVED", "STARTED">> /\ f.pubs = <<>> /\ f.sig = f.msg
            /\ f.pc \in {"taskRetrySend", "retryTaskInSend"} =>
                  /\ f.writes = <<"RECEIVED", "STARTED", "RETRY">>
                  /\ f.pubs = <<>>
                  /\ f.sig = f.msg
            /\ Has(f.writes, "RETRY") =>
                  /\ f.writes = <<"RECEIVED", "STARTED", "RETRY">>
                  /\ f.pubs /= <<>> =>
                        /\ f.pubs = <<[kind |-> "retry", sig |-> f.sig]>>
                        /\ Has(published, f.pubs[1])
                        /\ IF default
                           THEN /\ f.sig.RetryCount = f.msg.RetryCount - 1
                                /\ f.sig.RetryTimeout = timeout
                                /\ f.sig.ETA = <<f.now + timeout>>
                                /\ f.sig = [f.msg EXCEPT !.RetryCount = @ - 1,
                                                         !.RetryTimeout = timeout,
                                                         !.ETA = <<f.now + timeout>>]
                           ELSE f.sig = [f.msg EXCEPT !.ETA = <<f.now + f.err.retryIn>>]

C6_Witness ==
    \E w \in Workers :
        /\ Returned(w)
        /\ proc[w].writes = <<"RECEIVED", "STARTED", "RETRY">>
        /\ proc[w].err.kind = "error"
        /\ proc[w].pubs /= <<>>
        /\ proc[w].sig.RetryTimeout > proc[w].msg.RetryTimeout

\* C7, as claimed: whatever value the handler panics with, the error Call
\* reports is not nil (the error itself, an error made of the string, the
\* generic error for any other value) and the call never writes SUCCESS.
C7_PanicSafety ==
    \A w \in Workers :
        (Invoked(w) /\ proc[w].handler.beh = "panic") =>
            LET p == proc[w].handler.panic
            IN  /\ proc[w].err.kind /= "nil"
                /\ p.type = "error" => proc[w].err = p.err
                /\ p.type = "string" => proc[w].err = Err(p.str)
                /\ p.type = "other" => proc[w].err = ErrTaskPanicked
                /\ ~Has(proc[w].writes, "SUCCESS")
                /\ Returned(w) => proc[w].ret \in {"nil", "error"}

----------------------------------------------------------------------------
\* The arguments a callback had when the signature was delivered.
OriginalArgs(msg, pub) ==
    IF pub.kind = "chord" THEN msg.ChordCallback[1].Args
    ELSE LET cbs == IF pub.kind = "on_success" THEN msg.OnSuccess ELSE msg.OnError
         IN  cbs[CHOOSE k \in 1..Len(cbs) : cbs[k].Id = pub.sig.Id].Args

\* The result values of all members, in submission order.
RECURSIVE GroupValues(_)
GroupValues(k) ==
    IF k > Len(GroupMembers) THEN <<>>
    ELSE ReturnValues(GroupMembers[k]) \o GroupValues(k + 1)

\* C8, as claimed: a call on an immutable signature sends every on_success
\* callback and the chord callback with the args they had on entry.
C8_ImmutableNoCallbackExtended ==
    \A w \in Workers :
        proc[w].msg.Immutable =>
            \A k \in 1..Len(proc[w].pubs) :
                proc[w].pubs[k].kind \in {"on_success", "chord"} =>
                    proc[w].pubs[k].sig.Args = OriginalArgs(proc[w].msg, proc[w].pubs[k])

\* C8, amended: a call on an immutable signature sends every on_success
\* callback with the args it had on entry; the chord callback goes by its own
\* immutable flag: its args are unchanged when chord_callback.immutable is
\* true and extended by the members' results when it is false.
C8_ImmutableOnSuccess ==
    \A w \in Workers :
        proc[w].msg.Immutable =>
            \A k \in 1..Len(proc[w].pubs) :
                LET pub == proc[w].pubs[k]
                    args == OriginalArgs(proc[w].msg, pub)
                IN  /\ pub.kind = "on_success" => pub.sig.Args = args
                    /\ pub.kind = "chord" =>
                          pub.sig.Args = IF pub.sig.Immutable THEN args
                                         ELSE args \o GroupValues(1)

C8_Witness ==
    \E w \in Workers :
        /\ Returned(w)
        /\ proc[w].msg.Immutable
        /\ proc[w].results /= <<>>
        /\ Sends(proc[w].pubs, "on_success") /= {}
        /\ \E k \in Sends(proc[w].pubs, "chord") : ~proc[w].pubs[k].sig.Immutable

----------------------------------------------------------------------------
\* C9: when the handler returns an ErrRetryTaskLater with delay d, whatever
\* retry_count is, the call writes RECEIVED, STARTED, RETRY and never FAILURE,
\* leaves retry_count and retry_timeout as delivered, sends no on_error
\* callback, and, unless one of its backend or broker calls fails, sends the
\* signature back once with eta = now + d and nothing else changed.
C9_RetryLater ==
    \A w \in Workers :
        LET f == proc[w]
        IN  (Invoked(w) /\ f.handler.last = "retriable") =>
                /\ ~Has(f.writes, "FAILURE")
                /\ f.sig.RetryCount = f.msg.RetryCount
                /\ f.sig.RetryTimeout = f.msg.RetryTimeout
                /\ Sends(f.pubs, "on_error") = {}
                /\ Returned(w) =>
                      /\ f.writes = <<"RECEIVED", "STARTED", "RETRY">>
                      /\ faults = 0 => f.ret = "nil"
                      /\ f.ret = "error" => f.pubs = <<>>
                      /\ f.ret = "nil" =>
                            /\ f.pubs = <<[kind |-> "retry",
                                           sig |-> [f.msg EXCEPT !.ETA =
                                              <<f.now + f.handler.err.retryIn>>]]>>
                            /\ Has(published, f.pubs[1])

C9_Witness ==
    \E w \in Workers :
        /\ Returned(w)
        /\ proc[w].handler.last = "retriable"
        /\ proc[w].msg.RetryCount = 0
        /\ proc[w].ret = "nil"
        /\ Len(proc[w].pubs) = 1

\* C10: when the handler fails with an error that is not retriable and
\* retry_count > 0, the call writes RECEIVED, STARTED, RETRY and never FAILURE,
\* sends no on_error callback, and, unless one of its backend or broker calls
\* fails, sends the signature back once with retry_count one less,
\* retry_timeout replaced by its Fibonacci successor and eta = now + the new
\* retry_timeout; retry_count 2 and retry_timeout 3 become 1 and 5.
C10_DefaultBackoff ==
    \A w \in Workers :
        LET f == proc[w]
            timeout == FibonacciNext(f.msg.RetryTimeout)
            next == [f.msg EXCEPT !.RetryCount = @ - 1,
                                  !.RetryTimeout = timeout,
                                  !.ETA = <<f.now + timeout>>]
        IN  (Invoked(w) /\ f.err.kind = "error" /\ f.msg.RetryCount > 0) =>
                /\ ~Has(f.writes, "FAILURE")
                /\ Sends(f.pubs, "on_error") = {}
                /\ Returned(w) =>
                      /\ f.writes = <<"RECEIVED", "STARTED", "RETRY">>
                      /\ faults = 0 => f.ret = "nil"
                      /\ f.ret = "error" => f.pubs = <<>>
                      /\ f.ret = "nil" =>
                            /\ f.pubs = <<[kind |-> "retry", sig |-> next]>>
                            /\ Has(published, f.pubs[1])
                            /\ f.sig = next
                            /\ (f.msg.RetryCount = 2 /\ f.msg.RetryTimeout = 3) =>
                                  /\ f.sig.RetryCount = 1
                                  /\ f.sig.RetryTimeout = 5
                                  /\ f.sig.ETA = <<f.now + 5>>

C10_Witness ==
    \E w \in Workers :
        /\ Returned(w)
        /\ proc[w].handler.last = "error"
        /\ proc[w].msg.RetryCount = 2
        /\ proc[w].msg.RetryTimeout = 3
        /\ proc[w].ret = "nil"
        /\ proc[w].sig.RetryCount = 1
        /\ proc[w].sig.RetryTimeout = 5

----------------------------------------------------------------------------
\* The Fibonacci numbers 1, 2, 3, 5, 8, ... up to FibonacciLimit, and the
\* successor of t among them: the smallest that is greater than t.
RECURSIVE FibonacciUpTo(_, _, _)
FibonacciUpTo(a, b, limit) ==
    IF a > limit THEN {} ELSE {a} \cup FibonacciUpTo(b, a + b, limit)

FibonacciNumbers == FibonacciUpTo(1, 2, FibonacciLimit)

FibonacciSuccessor(t) ==
    CHOOSE n \in FibonacciNumbers :
        n > t /\ \A m \in FibonacciNumbers : m > t => n <= m

\* The signatures sent back for task id, in the order they were sent.
RetriesOf(id) ==
    SelectSeq(published, LAMBDA p : p.kind = "retry" /\ p.sig.Id = id)

\* b was sent back by a default retry of a: its retry_count is one less.
DefaultRetry(a, b) == b.RetryCount = a.RetryCount - 1

\* The retry_timeout values of n default retries, one after the other, of a
\* signature that had t.
RECURSIVE TimeoutsFrom(_, _)
TimeoutsFrom(t, n) ==
    IF n = 0 THEN <<>>
    ELSE LET u == FibonacciNext(t) IN <<u>> \o TimeoutsFrom(u, n - 1)

\* C11: every default retry replaces retry_timeout t by the smallest Fibonacci
\* number greater than t (1 when t <= 0), which is never less than t: this
\* holds between the signature a call was given and the one it sends back, and
\* between every two signatures sent back one after the other for the same
\* task (an explicit retry in between leaves retry_timeout as it is); from 0
\* the successive values are 1, 2, 3, 5, 8, 13, 21.
C11_FibonacciBackoff ==
    /\ \A w \in Workers :
          LET f == proc[w]
          IN  (Sends(f.pubs, "retry") /= {} /\ DefaultRetry(f.msg, f.sig)) =>
                  /\ f.sig.RetryTimeout = FibonacciSuccessor(f.msg.RetryTimeout)
                  /\ f.sig.RetryTimeout >= f.msg.RetryTimeout
                  /\ f.msg.RetryTimeout <= 0 => f.sig.RetryTimeout = 1
    /\ \A id \in {"solo", "m1", "m2"} :
          LET sent == RetriesOf(id)
          IN  \A k \in 1..(Len(sent) - 1) :
                  LET t == sent[k].sig.RetryTimeout
                      u == sent[k + 1].sig.RetryTimeout
                  IN  IF DefaultRetry(sent[k].sig, sent[k + 1].sig)
                      THEN u = FibonacciSuccessor(t) /\ u >= t
                      ELSE u = t
    /\ TimeoutsFrom(0, 7) = <<1, 2, 3, 5, 8, 13, 21>>

\* A signature submitted with retry_timeout 3 was retried twice by default:
\* it was sent back with 5, then with 8.
C11_Witness ==
    LET sent == RetriesOf("solo")
    IN  /\ Len(sent) = 2
        /\ DefaultRetry(sent[1].sig, sent[2].sig)
        /\ sent[1].sig.RetryTimeout = 5
        /\ sent[2].sig.RetryTimeout = 8

----------------------------------------------------------------------------
\* tasks.New was called for the signature of the frame.
BuildAttempted(f) == f.direct \/ Has(f.writes, "STARTED")

\* The handler's parameters that are not the leading context.
ParamsWithoutContext(task) == NumIn(task) - (IF UseContext(task) THEN 1 ELSE 0)

\* C12: tasks.New succeeds exactly when the number of signature args is the
\* number of the handler's parameters without the leading context; the
\* handler is then called with the args in their order, after the context
\* when it takes one (so the handler taking only a context is built from
\* empty args and called with the context).
C12_BuildArity ==
    \A w \in Workers :
        LET f == proc[w]
            task == f.msg.Task
        IN  BuildAttempted(f) =>
                /\ ~f.direct <=> Len(f.msg.Args) = ParamsWithoutContext(task)
                /\ Invoked(w) =>
                      /\ Len(f.in) = NumIn(task)
                      /\ f.in = (IF UseContext(task) THEN <<ContextValue>> ELSE <<>>)
                                   \o ReflectArgs(task, f.msg.Args)

----------------------------------------------------------------------------
\* The signature has as many args as the handler has parameters, and one of
\* them, as ReflectArgs stores it, is not of its parameter's type.
Mistyped(sig) ==
    /\ Len(sig.Args) = NumIn(sig.Task)
    /\ \E k \in 1..Len(sig.Args) :
          ReflectArgs(sig.Task, sig.Args)[k].kind /= In(sig.Task)[k]

\* C13: for a signature with an arg of the wrong type (true for x int),
\* tasks.New succeeds, Call returns a non-nil error and no results, and the
\* call ends on the failure path whatever retry_count is: it writes RECEIVED,
\* STARTED, FAILURE, never RETRY, and does not send the signature back.
C13_MistypedArgFailsWithoutRetry ==
    \A w \in Workers :
        LET f == proc[w]
        IN  (proc[w].pc /= "idle" /\ Mistyped(f.msg)) =>
                /\ ~f.direct
                /\ Invoked(w) => f.err.kind /= "nil" /\ f.results = <<>>
                /\ ~Has(f.writes, "RETRY")
                /\ Sends(f.pubs, "retry") = {}
                /\ (Returned(w) /\ f.ret = "nil") =>
                      f.writes = <<"RECEIVED", "STARTED", "FAILURE">>

----------------------------------------------------------------------------
\* C14: when the handler returns no value at all, or a last value that is
\* neither nil nor an error, Call reports ErrTaskReturnsNoValue or
\* ErrLastReturnValueMustBeError and the call fails directly whatever
\* retry_count is: it writes FAILURE, never RETRY, and does not send the
\* signature back.
C14_BadReturnFailsWithoutRetry ==
    \A w \in Workers :
        LET f == proc[w]
        IN  (Invoked(w) /\ f.handler.last \in {"novalue", "other"}) =>
                /\ f.err = IF f.handler.last = "novalue"
                           THEN ErrTaskReturnsNoValue
                           ELSE ErrLastReturnValueMustBeError
                /\ ~Has(f.writes, "RETRY")
                /\ Sends(f.pubs, "retry") = {}
                /\ f.sig.RetryCount = f.msg.RetryCount
                /\ (Returned(w) /\ f.ret = "nil") =>
                      f.writes = <<"RECEIVED", "STARTED", "FAILURE">>

----------------------------------------------------------------------------
\* C15: a call on the failure path sends nothing but on_error callbacks (no
\* on_success callback, no chord callback, not the signature itself), each
\* with the error's string first and then the args it had, in their order,
\* whether the failed signature or the callback is immutable or not; when no
\* backend or broker call failed, it has sent every on_error callback, in the
\* order of the list.
C15_ErrorCallbackArgs ==
    \A w \in Workers :
        LET f == proc[w]
            expected == [k \in 1..Len(f.msg.OnError) |->
                            [kind |-> "on_error",
                             sig |-> [f.msg.OnError[k] EXCEPT !.Args =
                                         <<StringValue(f.err.msg)>> \o @]]]
        IN  (f.pc \in {"taskFailed", "onError"} \/ Has(f.writes, "FAILURE")) =>
                /\ f.err.kind /= "nil"
                /\ \A k \in 1..Len(f.pubs) :
                      /\ f.pubs[k].kind = "on_error"
                      /\ Has(expected, f.pubs[k])
                      /\ Has(published, f.pubs[k])
                /\ (Returned(w) /\ faults = 0) => f.pubs = expected

\* An immutable signature failed in its handler and its immutable on_error
\* callback was sent with the error string before its own arg.
C15_Witness ==
    \E w \in Workers :
        /\ Returned(w)
        /\ Invoked(w)
        /\ Has(proc[w].writes, "FAILURE")
        /\ proc[w].msg.Immutable
        /\ Len(proc[w].msg.OnError) = 1
        /\ proc[w].msg.OnError[1].Immutable
        /\ Len(proc[w].pubs) = 1
        /\ proc[w].pubs[1].sig.Args =
              <<StringValue(proc[w].err.msg)>> \o proc[w].msg.OnError[1].Args
        /\ Len(proc[w].pubs[1].sig.Args) = 2

----------------------------------------------------------------------------
\* C16: a Process call one of whose backend calls returned an error (a
\* SetState* call, GroupCompleted, TriggerChord or GroupTaskStates) returns
\* with that call as its last step and hands a non-nil error to the consume
\* loop.
C16_BackendErrorsPropagate ==
    \A w \in Workers :
        proc[w].failed /= "" => (Returned(w) /\ proc[w].ret = "error")

----------------------------------------------------------------------------
\* C17: a call sends an on_success child only after its SetStateSuccess call
\* has succeeded: whenever it is about to send one or has sent one, it has
\* written RECEIVED, STARTED, SUCCESS, the backend records the parent as
\* SUCCESS with its results, and the child is in the broker's record only from
\* then on; a call whose SUCCESS write failed, or that wrote FAILURE or RETRY,
\* has sent no on_success child.
C17_ChildAfterParentSuccess ==
    \A w \in Workers :
        LET f == proc[w]
        IN  /\ (f.pc = "onSuccess" \/ Sends(f.pubs, "on_success") /= {}) =>
                  /\ f.writes = <<"RECEIVED", "STARTED", "SUCCESS">>
                  /\ f.failed /= "SetStateSuccess"
                  /\ f.err.kind = "nil"
                  /\ taskState[f.sig.Id] = "SUCCESS"
                  /\ taskResults[f.sig.Id] = f.results
            /\ (\/ f.failed = "SetStateSuccess"
                \/ Has(f.writes, "FAILURE")
                \/ Has(f.writes, "RETRY")
                \/ ~Has(f.writes, "SUCCESS")) =>
                  Sends(f.pubs, "on_success") = {}

\* A parent succeeded and both its children were sent after the SUCCESS write.
C17_Witness ==
    \E w \in Workers :
        /\ Returned(w)
        /\ proc[w].writes = <<"RECEIVED", "STARTED", "SUCCESS">>
        /\ taskState[proc[w].sig.Id] = "SUCCESS"
        /\ Cardinality(Sends(proc[w].pubs, "on_success")) = 2
        /\ Cardinality(Sends(published, "on_success")) = 2

----------------------------------------------------------------------------
\* The signature submitted alone is neither waiting in the workers' queue nor
\* held by a call that has not returned.
Settled ==
    /\ \A i \in 1..Len(queue) : queue[i].RoutingKey /= WorkerQueue
    /\ \A w \in Workers : ~Running(w)

\* C18: retry_count is never negative, in a call, in the queue or in what was
\* sent.  In a run without a failed backend or broker call in which the handler
\* of the signature submitted alone, with retry_count k, has so far failed at
\* every invocation with an error that is not retriable: it has been invoked
\* at most k + 1 times, the n-th time with retry_count k - (n - 1); FAILURE is
\* written only by the call of the (k + 1)-th invocation, which does not send
\* the signature back; and once the signature is settled it has been invoked
\* exactly k + 1 times, sent back k times, and is recorded as FAILURE.
C18_InvokedRetryCountPlusOne ==
    /\ \A w \in Workers : proc[w].sig.RetryCount >= 0
    /\ \A i \in 1..Len(queue) : queue[i].RetryCount >= 0
    /\ \A i \in 1..Len(published) : published[i].sig.RetryCount >= 0
    /\ (faults = 0 /\ calls.made >= 1 /\ calls.failed = calls.made) =>
          LET k == calls.first
          IN  /\ calls.made <= k + 1
              /\ \A w \in Workers :
                    LET f == proc[w]
                    IN  /\ (Invoked(w) /\ Running(w)) =>
                              f.msg.RetryCount = k - (calls.made - 1)
                        /\ Has(f.writes, "FAILURE") =>
                              /\ calls.made = k + 1
                              /\ Sends(f.pubs, "retry") = {}
                              /\ Len(RetriesOf(f.msg.Id)) = k
              /\ Settled =>
                    /\ calls.made = k + 1
                    /\ Len(RetriesOf("solo")) = k
                    /\ taskState["solo"] = "FAILURE"

\* The handler failed three times for a signature submitted with retry_count
\* 2, which was sent back twice and is now recorded as FAILURE.
C18_Witness ==
    /\ faults = 0
    /\ Settled
    /\ calls = [made |-> 3, first |-> 2, failed |-> 3]
    /\ taskState["solo"] = "FAILURE"
    /\ Len(RetriesOf("solo")) = 2

----------------------------------------------------------------------------
\* The group's chord has been triggered, its callback has not been sent, and
\* no call is between winning TriggerChord and sending the callback.
ChordAbandoned ==
    /\ chordTriggered
    /\ ChordCount = 0
    /\ \A w \in Workers : proc[w].pc \notin {"groupTaskStates", "sendChord"}

\* The call read the members' states and one of them was not SUCCESS.
SawNonSuccess(f) == \E k \in 1..Len(f.states) : f.states[k].State /= "SUCCESS"

\* C19: a call that won TriggerChord and read a member state that is not
\* SUCCESS returns nil at once without sending the chord callback, and no
\* state is written for the chord; the chord is then abandoned for good: once
\* it is triggered and unsent with no winner still at work, no step of any
\* worker sends it.
C19_ChordAbandoned ==
    /\ [](\A w \in Workers :
            SawNonSuccess(proc[w]) =>
                /\ Returned(w)
                /\ proc[w].ret = "nil"
                /\ proc[w].failed = ""
                /\ Sends(proc[w].pubs, "chord") = {}
                /\ taskState["chord"] = "PENDING"
                /\ ChordAbandoned)
    /\ [][ChordAbandoned => ChordAbandoned']_vars

\* The member that completed the group found the other one recorded FAILURE.
C19_Witness ==
    \E w \in Workers :
        /\ SawNonSuccess(proc[w])
        /\ \E k \in 1..Len(proc[w].states) : proc[w].states[k].State = "FAILURE"
        /\ Has(proc[w].writes, "SUCCESS")
        /\ Returned(w)
        /\ ChordCount = 0

----------------------------------------------------------------------------
\* The result values of the states from the k-th on, one state after the
\* other, each state's values in their order.
RECURSIVE ResultsFrom(_, _)
ResultsFrom(states, k) ==
    IF k > Len(states) THEN <<>>
    ELSE states[k].Results \o ResultsFrom(states, k + 1)

\* C20: the chord callback a call sends (or is about to send) is the one the
\* signature carried, with its args followed by the result values of all
\* members, in the order GroupTaskStates returned the members (their
\* submission order) and each member's values in their order, when
\* chord_callback.immutable is false, and with its args unchanged when it is
\* true; the states read were those of all members, every one SUCCESS.
C20_ChordArgs ==
    \A w \in Workers :
        LET f == proc[w]
        IN  (f.pc = "sendChord" \/ Sends(f.pubs, "chord") /= {}) =>
                LET chord == f.msg.ChordCallback[1]
                    sent == [chord EXCEPT !.Args =
                                IF chord.Immutable THEN @
                                ELSE @ \o ResultsFrom(f.states, 1)]
                IN  /\ Len(f.states) = Len(GroupMembers)
                    /\ \A k \in 1..Len(f.states) :
                          /\ f.states[k].State = "SUCCESS"
                          /\ f.states[k].Results = ReturnValues(GroupMembers[k])
                    /\ ResultsFrom(f.states, 1) = GroupValues(1)
                    /\ f.sig.ChordCallback[1] = sent
                    /\ \A k \in Sends(f.pubs, "chord") :
                          f.pubs[k].sig = sent /\ Has(published, f.pubs[k])

\* A chord callback that is not immutable was sent with its own arg followed
\* by the value of the first member and the two values of the second.
C20_Witness ==
    \E w \in Workers :
        /\ Returned(w)
        /\ \E k \in Sends(proc[w].pubs, "chord") :
              /\ ~proc[w].pubs[k].sig.Immutable
              /\ proc[w].pubs[k].sig.Args = Ints(<<9, 11, 21, 22>>)
        /\ Has(published, [kind |-> "chord", sig |-> proc[w].sig.ChordCallback[1]])

----------------------------------------------------------------------------
\* The call on a group member has come to the evaluation of the group: it is
\* about to make a group call to the backend, or has made one.
AtGroup(f) ==
    \/ f.pc \in {"groupCompleted", "triggerChord", "groupTaskStates", "sendChord"}
    \/ f.queries /= <<>>

\* The on_success callbacks of the delivered signature, as taskSucceeded
\* sends them for the results of the call.
OnSuccessSent(f) ==
    [k \in 1..Len(f.msg.OnSuccess) |->
        [kind |-> "on_success",
         sig |-> SuccessCallback(f.msg, f.msg.OnSuccess[k], f.results)]]

\* C21: a call on a group member that has come to the evaluation of the group
\* (GroupCompleted, then TriggerChord, then GroupTaskStates) has written
\* SUCCESS and has handed every on_success callback to SendTask before, and
\* when no broker call failed every one of them is published: whether the
\* group is complete or not, whether the chord was already triggered, and
\* whether the chord is abandoned; while the callbacks are being sent no group
\* call has been made.
C21_OnSuccessBeforeGroup ==
    \A w \in Workers :
        LET f == proc[w]
        IN  /\ f.pc = "onSuccess" => f.queries = <<>>
            /\ (OnMember(w) /\ AtGroup(f)) =>
                  /\ Has(f.writes, "SUCCESS")
                  /\ Len(f.msg.OnSuccess) > 0 => f.i = Len(f.msg.OnSuccess) + 1
                  /\ faults = 0 =>
                        /\ IsPrefix(OnSuccessSent(f), f.pubs)
                        /\ \A k \in 1..Len(f.msg.OnSuccess) :
                              Has(published, OnSuccessSent(f)[k])

\* The first member completed the group, won TriggerChord and found the other
\* member recorded FAILURE: the chord is abandoned, the member's on_success
\* callback is published.
C21_Witness ==
    \E w \in Workers :
        /\ Returned(w)
        /\ proc[w].msg.Id = "m1"
        /\ faults = 0
        /\ SawNonSuccess(proc[w])
        /\ ChordAbandoned
        /\ Len(proc[w].msg.OnSuccess) = 1
        /\ Has(published, OnSuccessSent(proc[w])[1])

\* The first member returned before the group was complete.
C21_WitnessIncomplete ==
    \E w \in Workers :
        /\ Returned(w)
        /\ proc[w].msg.Id = "m1"
        /\ faults = 0
        /\ proc[w].queries = <<"GroupCompleted">>
        /\ Has(published, OnSuccessSent(proc[w])[1])

\* The first member found the chord triggered by the other one.
C21_WitnessTriggered ==
    \E w \in Workers :
        /\ Returned(w)
        /\ proc[w].msg.Id = "m1"
        /\ faults = 0
        /\ proc[w].queries = <<"GroupCompleted", "TriggerChord">>
        /\ ChordCount = 1
        /\ Has(published, OnSuccessSent(proc[w])[1])

----------------------------------------------------------------------------
\* The errors the caller received from the given goroutine.
SentBy(from) == {k \in 1..Len(errorsChan) : errorsChan[k].from = from}

\* C22: in the consume loop every return of StartConsuming with retry = true
\* is told to the error handler when one is set, puts nothing on the error
\* channel and is followed by another call of StartConsuming; after the first
\* return with retry = false the loop sends that error on the channel, once,
\* and has made no further call of StartConsuming.
C22_ConsumeLoop ==
    /\ consumer.notified = IF cnf.errorHandler THEN consumer.retried ELSE 0
    /\ consumer.pc = "start" =>
          /\ consumer.started = consumer.retried
          /\ ENABLED StartConsuming \/ consumer.started = MaxStartConsuming
    /\ consumer.pc /= "start" => consumer.started = consumer.retried + 1
    /\ consumer.pc \in {"start", "consuming", "send"} => SentBy("consumer") = {}
    /\ consumer.pc = "send" => consumer.err \in {TerminalError, NilErr}
    /\ consumer.pc = "exited" =>
          /\ Cardinality(SentBy("consumer")) = 1
          /\ \A k \in SentBy("consumer") : errorsChan[k].err = consumer.err

\* The broker failed twice with retry, the error handler was told twice, the
\* third call ended with a terminal error, which the caller has received.
C22_Witness ==
    /\ cnf.errorHandler
    /\ consumer.pc = "exited"
    /\ consumer.retried = 2
    /\ consumer.notified = 2
    /\ consumer.started = 3
    /\ errorsChan = <<[from |-> "consumer", err |-> TerminalError]>>

----------------------------------------------------------------------------
\* The abrupt errors the signal goroutine has sent or is waiting to send.
AbruptErrors ==
    Cardinality(SentBy("signalHandler"))
    + (IF signalHandler.pc = "send" THEN 1 ELSE 0)

\* C23: with signal handling enabled the first signal received starts the
\* graceful quit, which calls StopConsuming and sends the "quit gracefully"
\* error only after StopConsuming has returned, that is after the running
\* handlers have returned; every signal received after the first makes the
\* signal goroutine send the "quit abruptly" error itself, whatever the state
\* of the graceful quit; with NoUnixSignals set no signal is received, and
\* neither StopConsuming is called nor an error sent for a signal.
C23_Signals ==
    /\ (quitter /= "none") = (signalHandler.signalsReceived >= 1)
    /\ broker.stopping = (quitter \in {"stopConsuming", "send", "done"})
    /\ quitter \in {"send", "done"} => broker.stopped
    /\ broker.stopped => broker.inflight = 0
    /\ SentBy("quitter") /= {} =>
          /\ quitter = "done"
          /\ Cardinality(SentBy("quitter")) = 1
          /\ \A k \in SentBy("quitter") : errorsChan[k].err = QuitGracefully
    /\ AbruptErrors = IF signalHandler.signalsReceived >= 2
                      THEN signalHandler.signalsReceived - 1 ELSE 0
    /\ \A k \in SentBy("signalHandler") : errorsChan[k].err = QuitAbruptly
    /\ signalHandler.signalsReceived <= signalHandler.raised
    /\ cnf.NoUnixSignals =>
          /\ signalHandler.pc = "off"
          /\ signalHandler.sig = 0
          /\ signalHandler.signalsReceived = 0
          /\ quitter = "none"
          /\ ~broker.stopping
          /\ SentBy("signalHandler") = {}
          /\ SentBy("quitter") = {}

\* The caller received the "quit abruptly" error of the second signal while
\* StopConsuming, called for the first, still waits for a running handler.
C23_Witness ==
    /\ signalHandler.signalsReceived = 2
    /\ quitter = "stopConsuming"
    /\ broker.inflight > 0
    /\ ~broker.stopped
    /\ errorsChan = <<[from |-> "signalHandler", err |-> QuitAbruptly]>>

\* The graceful error was received after the drain.
C23_WitnessGraceful ==
    /\ signalHandler.signalsReceived = 1
    /\ quitter = "done"
    /\ broker.stopped
    /\ Has(errorsChan, [from |-> "quitter", err |-> QuitGracefully])

\* Signals are raised with NoUnixSignals set.
C23_WitnessNoSignals ==
    /\ cnf.NoUnixSignals
    /\ signalHandler.raised = MaxSignals
    /\ consumer.pc = "consuming"

----------------------------------------------------------------------------
\* The states after which the backend expects no other write for the task.
TerminalStates == {"SUCCESS", "FAILURE"}

\* A callback was published twice: two publications of the same kind
\* (on_success, on_error or chord) carry the same callback.
PublishedTwice ==
    \E i, j \in 1..Len(published) :
        /\ i < j
        /\ published[i].kind \in {"on_success", "on_error", "chord"}
        /\ published[i].kind = published[j].kind
        /\ published[i].sig.Id = published[j].sig.Id

\* No step takes a task recorded SUCCESS or FAILURE to another state than
\* these two.
TerminalStatesKept ==
    \A id \in TaskIds :
        taskState[id] \in TerminalStates => taskState'[id] \in TerminalStates

\* C24: with a broker that delivers again exactly the deliveries whose Process
\* call returned an error, a task recorded SUCCESS or FAILURE is never moved
\* to RECEIVED, STARTED or RETRY by a later write (of the states a call ends
\* in, RETRY alone is followed by a new RECEIVED), and no callback is
\* published a second time.
C24_TerminalStatesFinal ==
    /\ [](~PublishedTwice)
    /\ [][TerminalStatesKept]_vars

----------------------------------------------------------------------------
\* The state writes a call has made when the given one is its last.
WritesUpTo(call) ==
    CASE call = "SetStateReceived" -> <<"RECEIVED">>
      [] call = "SetStateStarted" -> <<"RECEIVED", "STARTED">>
      [] OTHER -> <<"RECEIVED", "STARTED", "RETRY">>

\* C25: a Process call whose SetStateReceived or SetStateStarted failed, or
\* whose SetStateRetry failed on either retry path, has returned an error with
\* the signature as it was delivered (eta, retry_count, retry_timeout and all
\* the rest), has sent nothing to the broker, has made the failed write as its
\* last backend call, and has not invoked the handler when the failed write
\* is RECEIVED or STARTED (when it is RETRY the handler had already returned
\* its error).
C25_FailedWriteLeavesNoTrace ==
    \A w \in Workers :
        LET f == proc[w]
        IN  f.failed \in {"SetStateReceived", "SetStateStarted", "SetStateRetry"} =>
                /\ Returned(w)
                /\ f.ret = "error"
                /\ f.sig = f.msg
                /\ f.sig.ETA = f.msg.ETA
                /\ f.sig.RetryCount = f.msg.RetryCount
                /\ f.sig.RetryTimeout = f.msg.RetryTimeout
                /\ f.pubs = <<>>
                /\ f.writes = WritesUpTo(f.failed)
                /\ f.queries = <<>>
                /\ f.now = 0
                /\ (f.failed /= "SetStateRetry") = ~Invoked(w)
                /\ f.failed = "SetStateRetry" =>
                      f.pc = "done" /\ f.err.kind \in {"error", "retriable"}

\* SetStateRetry failed in taskRetry: the handler returned an error for a
\* signature with retries left, and the signature still has them all.
C25_Witness ==
    \E w \in Workers :
        /\ proc[w].failed = "SetStateRetry"
        /\ proc[w].err.kind = "error"
        /\ proc[w].msg.RetryCount = MaxRetryCount
        /\ proc[w].sig.RetryCount = MaxRetryCount
        /\ proc[w].msg.RetryTimeout = 3
        /\ published = <<>>

C25_WitnessRetryIn ==
    \E w \in Workers :
        /\ proc[w].failed = "SetStateRetry"
        /\ proc[w].err.kind = "retriable"

C25_WitnessStarted ==
    \E w \in Workers : proc[w].failed = "SetStateStarted" /\ taskState[proc[w].msg.Id] = "RECEIVED"

C25_WitnessReceived ==
    \E w \in Workers : proc[w].failed = "SetStateReceived" /\ taskState[proc[w].msg.Id] = "PENDING"

====
